---- MODULE Spec2Model ----
(***************************************************************************)
(* Model of micro-arena.h: a first-fit allocator over one fixed buffer,    *)
(* with two bounded chunk directories (free_chunks, used_chunks).          *)
(*                                                                         *)
(* Pointers into ma->mem are modelled as byte offsets 0..MEM_SIZE from     *)
(* &ma->mem; NULL is a value outside that range.  size_t is an unsigned    *)
(* integer of SIZE_BITS bits.                                              *)
(***************************************************************************)
EXTENDS Integers, Naturals, Sequences, FiniteSets, TLC

\* ---- bounds (scaled-down build configuration) ----
\* The directories never depend on the bytes of the buffer, so one byte
\* value is enough for them; claims about contents range over contents
\* themselves.
MICRO_ARENA_STACK_MEM_SIZE == 3
MICRO_ARENA_MAX_NUM_CHUNKS == 3
SIZE_BITS == 3
MaxFactor == 3
MaxByte == 0

NULL == -1

SIZE_MOD == 2 ^ SIZE_BITS
Offsets == 0 .. (MICRO_ARENA_STACK_MEM_SIZE - 1)
Pointers == 0 .. MICRO_ARENA_STACK_MEM_SIZE
Bytes == 0 .. MaxByte
\* sizes a caller asks for: everything that fits and one that cannot
Sizes == 0 .. (MICRO_ARENA_STACK_MEM_SIZE + 1)
\* operands of the nmemb * size products
Factors == 0 .. MaxFactor

VARIABLES free_chunks, used_chunks, mem, last, hist

vars == <<free_chunks, used_chunks, mem, last, hist>>

\* typedef struct { char* start; size_t size; } MicroArenaChunk;
MicroArenaChunk(start, size) == [start |-> start, size |-> size]

\* size_t arithmetic wraps modulo 2^SIZE_BITS
WrapSize(x) == x % SIZE_MOD

\* ---- chunk directory ----

\* mutation: the last slot is handed out as well
micro_arena_chunk_list_add_lastslot(chunk_list, start, size) ==
  IF Len(chunk_list) >= MICRO_ARENA_MAX_NUM_CHUNKS
  THEN [ok |-> FALSE, list |-> chunk_list]
  ELSE [ok |-> TRUE, list |-> Append(chunk_list, MicroArenaChunk(start, size))]

\* result of add: ok = FALSE is the NULL return
micro_arena_chunk_list_add(chunk_list, start, size) ==
  IF Len(chunk_list) + 1 >= MICRO_ARENA_MAX_NUM_CHUNKS
  THEN [ok |-> FALSE, list |-> chunk_list]
  ELSE [ok |-> TRUE, list |-> Append(chunk_list, MicroArenaChunk(start, size))]

\* mutation: a pointer into the middle of a chunk matches too
micro_arena_chunk_list_get_inside(chunk_list, start) ==
  LET S == {i \in 1..Len(chunk_list) :
              \/ chunk_list[i].start = start
              \/ /\ chunk_list[i].start <= start
                 /\ start < chunk_list[i].start + chunk_list[i].size}
  IN IF S = {} THEN 0 ELSE CHOOSE i \in S : \A j \in S : i <= j

\* index of the first entry whose start matches, 0 for NULL
micro_arena_chunk_list_get(chunk_list, start) ==
  IF \E i \in 1..Len(chunk_list) : chunk_list[i].start = start
  THEN CHOOSE i \in 1..Len(chunk_list) :
         /\ chunk_list[i].start = start
         /\ \A j \in 1..(i-1) : chunk_list[j].start # start
  ELSE 0

\* mutation: the head of the list is dropped whenever a match exists
micro_arena_chunk_list_remove_head(chunk_list, start) ==
  LET i == micro_arena_chunk_list_get(chunk_list, start)
  IN IF i = 0 THEN chunk_list
     ELSE [k \in 1..(Len(chunk_list) - 1) |-> chunk_list[k+1]]

micro_arena_chunk_list_remove(chunk_list, start) ==
  LET i == micro_arena_chunk_list_get(chunk_list, start)
  IN IF i = 0 THEN chunk_list
     ELSE [k \in 1..(Len(chunk_list) - 1) |->
             IF k < i THEN chunk_list[k] ELSE chunk_list[k+1]]

micro_arena_chunk_list_reset(chunk_list) == << >>

\* ---- arena ----

\* mutation: the used directory is not reset
micro_arena_init_keepused(fc, uc) ==
  [free_chunks |->
     micro_arena_chunk_list_add(micro_arena_chunk_list_reset(fc), 0,
                                MICRO_ARENA_STACK_MEM_SIZE).list,
   used_chunks |-> uc]

\* both directories are reset, then free gets the whole buffer
micro_arena_init(fc, uc) ==
  [free_chunks |->
     micro_arena_chunk_list_add(micro_arena_chunk_list_reset(fc), 0,
                                MICRO_ARENA_STACK_MEM_SIZE).list,
   used_chunks |-> micro_arena_chunk_list_reset(uc)]

\* mutation: the smallest sufficient entry instead of the first one
FirstFit_best(fc, size) ==
  IF \E i \in 1..Len(fc) : fc[i].size >= size
  THEN CHOOSE i \in 1..Len(fc) :
         /\ fc[i].size >= size
         /\ \A j \in 1..Len(fc) :
              fc[j].size >= size =>
                (fc[i].size < fc[j].size \/ (fc[i].size = fc[j].size /\ i <= j))
  ELSE 0

\* index of the first free entry with size >= size, 0 if the loop runs out
FirstFit(fc, size) ==
  IF \E i \in 1..Len(fc) : fc[i].size >= size
  THEN CHOOSE i \in 1..Len(fc) :
         /\ fc[i].size >= size
         /\ \A j \in 1..(i-1) : fc[j].size < size
  ELSE 0

\* mutation: the free entry keeps its start
SplitFront_keepstart(c, size) ==
  MicroArenaChunk(c.start, WrapSize(c.size - size))

\* mutation: the free entry keeps its size
SplitFront_keepsize(c, size) ==
  MicroArenaChunk(c.start + size, c.size)

\* the chosen free entry gives up its first size bytes
SplitFront(c, size) ==
  MicroArenaChunk(c.start + size, WrapSize(c.size - size))

micro_arena_malloc(fc, uc, size) ==
  LET i == FirstFit(fc, size)
      fail(why) == [free_chunks |-> fc, used_chunks |-> uc, ret |-> NULL,
                    path |-> why]
  IN IF i = 0 THEN fail("nofit")
     ELSE LET a == micro_arena_chunk_list_add(uc, fc[i].start, size)
          IN IF ~a.ok THEN fail("full")
             ELSE [free_chunks |->
                     [fc EXCEPT ![i] = SplitFront(fc[i], size)],
                   used_chunks |-> a.list,
                   ret |-> fc[i].start,
                   path |-> "ok"]

\* the scan keeps the last match of each kind; 0 for NULL
FreeChunkAfter(fc, u) ==
  LET S == {i \in 1..Len(fc) : fc[i].start = u.start + u.size}
  IN IF S = {} THEN 0 ELSE CHOOSE i \in S : \A j \in S : j <= i

FreeChunkBefore(fc, u) ==
  LET S == {i \in 1..Len(fc) : u.start = fc[i].start + fc[i].size}
  IN IF S = {} THEN 0 ELSE CHOOSE i \in S : \A j \in S : j <= i

\* which free entry the both-neighbours branch deletes
MergedRemoveKey(fc, b, a) == fc[b].start

micro_arena_free(fc, uc, ptr) ==
  LET ui == micro_arena_chunk_list_get(uc, ptr)
  IN IF ui = 0 THEN [free_chunks |-> fc, used_chunks |-> uc, path |-> "miss"]
     ELSE
       LET u == uc[ui]
           a == FreeChunkAfter(fc, u)
           b == FreeChunkBefore(fc, u)
           uc2 == micro_arena_chunk_list_remove(uc, u.start)
       IN IF b # 0 /\ a # 0
          THEN LET fc1 == [fc EXCEPT ![b].size =
                             WrapSize(@ + WrapSize(u.size + fc[a].size))]
               IN [free_chunks |->
                     micro_arena_chunk_list_remove(fc1, MergedRemoveKey(fc1, b, a)),
                   used_chunks |-> uc2, path |-> "both"]
          ELSE IF b # 0
          THEN [free_chunks |-> [fc EXCEPT ![b].size = WrapSize(@ + u.size)],
                used_chunks |-> uc2, path |-> "before"]
          ELSE IF a # 0
          THEN [free_chunks |->
                  [fc EXCEPT ![a] = MicroArenaChunk(u.start,
                                                    WrapSize(fc[a].size + u.size))],
                used_chunks |-> uc2, path |-> "after"]
          ELSE [free_chunks |->
                  micro_arena_chunk_list_add(fc, u.start, u.size).list,
                used_chunks |-> uc2, path |-> "neither"]

\* for (i = 0; i < n; ++i) mem[i] = 0;
RECURSIVE ZeroFill(_, _, _, _)
ZeroFill(m, p, i, n) ==
  IF i >= n THEN m
  ELSE ZeroFill([m EXCEPT ![p + i] = 0], p, i + 1, n)

micro_arena_calloc(fc, uc, m, nmemb, size) ==
  LET r == micro_arena_malloc(fc, uc, WrapSize(size * nmemb))
  IN IF r.ret = NULL
     THEN [free_chunks |-> fc, used_chunks |-> uc, mem |-> m, ret |-> NULL,
           path |-> r.path]
     ELSE [free_chunks |-> r.free_chunks, used_chunks |-> r.used_chunks,
           mem |-> ZeroFill(m, r.ret, 0, WrapSize(nmemb * size)),
           ret |-> r.ret, path |-> r.path]

\* mutation: the first byte is not copied
RECURSIVE CopyBytes_skipfirst(_, _, _, _, _)
CopyBytes_skipfirst(m, dst, src, i, n) ==
  IF i >= n THEN m
  ELSE IF i = 0 THEN CopyBytes_skipfirst(m, dst, src, 1, n)
  ELSE CopyBytes_skipfirst([m EXCEPT ![dst + i] = m[src + i]],
                           dst, src, i + 1, n)

\* for (i = 0; i < n; ++i) mem[i] = ptr[i];
RECURSIVE CopyBytes(_, _, _, _, _)
CopyBytes(m, dst, src, i, n) ==
  IF i >= n THEN m
  ELSE CopyBytes([m EXCEPT ![dst + i] = m[src + i]], dst, src, i + 1, n)

\* mutation: the old range is released before the new one is allocated
micro_arena_realloc_freefirst(fc, uc, m, ptr, size) ==
  IF ptr = NULL
  THEN LET r == micro_arena_malloc(fc, uc, size)
       IN [free_chunks |-> r.free_chunks, used_chunks |-> r.used_chunks,
           mem |-> m, ret |-> r.ret, path |-> "null"]
  ELSE
    LET ui == micro_arena_chunk_list_get(uc, ptr)
    IN IF ui = 0
       THEN [free_chunks |-> fc, used_chunks |-> uc, mem |-> m,
             ret |-> NULL, path |-> "miss"]
       ELSE LET f == micro_arena_free(fc, uc, ptr)
                r == micro_arena_malloc(f.free_chunks, f.used_chunks, size)
                min_size == IF uc[ui].size < size THEN uc[ui].size ELSE size
            IN IF r.ret = NULL
               THEN [free_chunks |-> f.free_chunks,
                     used_chunks |-> f.used_chunks, mem |-> m,
                     ret |-> NULL, path |-> "nomem"]
               ELSE [free_chunks |-> r.free_chunks,
                     used_chunks |-> r.used_chunks,
                     mem |-> CopyBytes(m, r.ret, ptr, 0, min_size),
                     ret |-> r.ret, path |-> "ok"]

micro_arena_realloc(fc, uc, m, ptr, size) ==
  IF ptr = NULL
  THEN LET r == micro_arena_malloc(fc, uc, size)
       IN [free_chunks |-> r.free_chunks, used_chunks |-> r.used_chunks,
           mem |-> m, ret |-> r.ret, path |-> "null"]
  ELSE
    LET ui == micro_arena_chunk_list_get(uc, ptr)
        fail(why) == [free_chunks |-> fc, used_chunks |-> uc, mem |-> m,
                      ret |-> NULL, path |-> why]
    IN IF ui = 0 THEN fail("miss")
       ELSE LET r == micro_arena_malloc(fc, uc, size)
            IN IF r.ret = NULL THEN fail("nomem")
               ELSE LET min_size == IF r.used_chunks[ui].size < size
                                    THEN r.used_chunks[ui].size ELSE size
                        f == micro_arena_free(r.free_chunks, r.used_chunks, ptr)
                    IN [free_chunks |-> f.free_chunks,
                        used_chunks |-> f.used_chunks,
                        mem |-> CopyBytes(m, r.ret, ptr, 0, min_size),
                        ret |-> r.ret, path |-> "ok"]

micro_arena_reallocarray(fc, uc, m, ptr, nmemb, size) ==
  micro_arena_realloc(fc, uc, m, ptr, WrapSize(nmemb * size))

\* ---- history of the calls made since micro_arena_init ----
\* "fresh": none; "allocs": only successful mallocs; "frees": successful
\* mallocs followed only by frees of handles found in used; "other": the rest
HistAfterMalloc(h, ok) ==
  IF ok /\ h \in {"fresh", "allocs"} THEN "allocs" ELSE "other"

HistAfterFree(h, found) ==
  IF found /\ h \in {"allocs", "frees"} THEN "frees" ELSE "other"

\* the last public call, the branch it took and what it returned
\* (NULL for the void functions)
Call(op, path, ret) == [op |-> op, path |-> path, ret |-> ret]

\* ---- state machine ----

\* MicroArena ma; micro_arena_init(&ma);  (ma.mem is not initialised)
Init ==
  /\ free_chunks = micro_arena_init(<< >>, << >>).free_chunks
  /\ used_chunks = micro_arena_init(<< >>, << >>).used_chunks
  /\ mem \in [Offsets -> Bytes]
  /\ last = Call("init", "ok", NULL)
  /\ hist = "fresh"

\* micro_arena_init called again on an arena that is in use
DoInit ==
  /\ free_chunks' = micro_arena_init(free_chunks, used_chunks).free_chunks
  /\ used_chunks' = micro_arena_init(free_chunks, used_chunks).used_chunks
  /\ last' = Call("init", "again", NULL)
  /\ hist' = "fresh"
  /\ UNCHANGED mem

DoMalloc ==
  \E size \in Sizes :
    LET r == micro_arena_malloc(free_chunks, used_chunks, size)
    IN /\ free_chunks' = r.free_chunks
       /\ used_chunks' = r.used_chunks
       /\ last' = Call("malloc", r.path, r.ret)
       /\ hist' = HistAfterMalloc(hist, r.path = "ok")
       /\ UNCHANGED mem

DoFree ==
  \E ptr \in Pointers \cup {NULL} :
    LET r == micro_arena_free(free_chunks, used_chunks, ptr)
    IN /\ free_chunks' = r.free_chunks
       /\ used_chunks' = r.used_chunks
       /\ last' = Call("free", r.path, NULL)
       /\ hist' = HistAfterFree(hist, r.path # "miss")
       /\ UNCHANGED mem

DoCalloc ==
  \E nmemb \in Factors, size \in Factors :
    LET r == micro_arena_calloc(free_chunks, used_chunks, mem, nmemb, size)
    IN /\ free_chunks' = r.free_chunks
       /\ used_chunks' = r.used_chunks
       /\ mem' = r.mem
       /\ last' = Call("calloc", r.path, r.ret)
       /\ hist' = "other"

DoRealloc ==
  \E ptr \in Pointers \cup {NULL}, size \in Sizes :
    LET r == micro_arena_realloc(free_chunks, used_chunks, mem, ptr, size)
    IN /\ free_chunks' = r.free_chunks
       /\ used_chunks' = r.used_chunks
       /\ mem' = r.mem
       /\ last' = Call("realloc", r.path, r.ret)
       /\ hist' = "other"

DoReallocarray ==
  \E ptr \in Pointers \cup {NULL}, nmemb \in Factors, size \in Factors :
    LET r == micro_arena_reallocarray(free_chunks, used_chunks, mem,
                                      ptr, nmemb, size)
    IN /\ free_chunks' = r.free_chunks
       /\ used_chunks' = r.used_chunks
       /\ mem' = r.mem
       /\ last' = Call("reallocarray", r.path, r.ret)
       /\ hist' = "other"

Next ==
  \/ DoInit
  \/ DoMalloc
  \/ DoFree
  \/ DoCalloc
  \/ DoRealloc
  \/ DoReallocarray

Spec == Init /\ [][Next]_vars

\* ---- ranges of the directory entries ----

InRange(c, o) == c.start <= o /\ o < c.start + c.size

\* the entries of both directories, tagged with directory and index
Entries ==
  {<<"free", i>> : i \in 1..Len(free_chunks)} \cup
  {<<"used", i>> : i \in 1..Len(used_chunks)}

EntryAt(e) == IF e[1] = "free" THEN free_chunks[e[2]] ELSE used_chunks[e[2]]

FullFree == << MicroArenaChunk(0, MICRO_ARENA_STACK_MEM_SIZE) >>

UniqueStarts(chunk_list) ==
  \A i, j \in 1..Len(chunk_list) :
    i # j => chunk_list[i].start # chunk_list[j].start

\* every entry of both directories lies inside the buffer
EntriesInBuffer ==
  /\ \A i \in 1..Len(free_chunks) :
       free_chunks[i].start + free_chunks[i].size <= MICRO_ARENA_STACK_MEM_SIZE
  /\ \A i \in 1..Len(used_chunks) :
       used_chunks[i].start + used_chunks[i].size <= MICRO_ARENA_STACK_MEM_SIZE

RECURSIVE SumSizes(_)
SumSizes(chunk_list) ==
  IF chunk_list = << >> THEN 0
  ELSE Head(chunk_list).size + SumSizes(Tail(chunk_list))

AnyPointer == Pointers \cup {NULL}

AllocOps == {"malloc", "calloc", "realloc", "reallocarray"}

\* ---- C1 ----
\* C1: every byte offset of the buffer lies in the range of at least one
\* entry of the free or the used directory.
C1_Coverage ==
  \A o \in Offsets : \E e \in Entries : InRange(EntryAt(e), o)

C3_RoundTrip ==
  (hist = "frees" /\ used_chunks = << >>) => free_chunks = FullFree

\* ---- C4 ----
\* C4: a successful malloc(size) returns the start of the first free entry
\* (directory order) with size >= size, appends (that start, size) to used,
\* advances that free entry by size and shrinks it by size (keeping it even
\* at size zero) and leaves every other free entry alone.
C4_FirstFitPost ==
  \A size \in Sizes :
    LET r == micro_arena_malloc(free_chunks, used_chunks, size)
    IN r.ret # NULL =>
         \E i \in 1..Len(free_chunks) :
           /\ free_chunks[i].size >= size
           /\ \A j \in 1..(i-1) : free_chunks[j].size < size
           /\ r.ret = free_chunks[i].start
           /\ r.used_chunks =
                used_chunks \o << [start |-> free_chunks[i].start, size |-> size] >>
           /\ Len(r.free_chunks) = Len(free_chunks)
           /\ r.free_chunks[i] = [start |-> free_chunks[i].start + size,
                                  size |-> free_chunks[i].size - size]
           /\ \A k \in 1..Len(free_chunks) :
                k # i => r.free_chunks[k] = free_chunks[k]

\* a malloc has just taken the whole of a free entry that is not the first
\* one, which stays behind with size zero
C4_Witness ==
  /\ last.op = "malloc" /\ last.path = "ok"
  /\ used_chunks # << >>
  /\ LET u == used_chunks[Len(used_chunks)]
     IN /\ u.start = last.ret
        /\ u.size > 0
        /\ \E i \in 2..Len(free_chunks) :
             free_chunks[i] = [start |-> u.start + u.size, size |-> 0]

\* ---- C5 ----
\* C5: malloc(size) returns NULL whenever no single free entry has
\* size >= size (whatever the free sizes add up to) and whenever used is at
\* capacity; a malloc that returns NULL leaves both directories as they were.
C5_MallocFailure ==
  \A size \in Sizes :
    LET r == micro_arena_malloc(free_chunks, used_chunks, size)
    IN /\ (\A i \in 1..Len(free_chunks) : free_chunks[i].size < size)
            => r.ret = NULL
       /\ Len(used_chunks) >= MICRO_ARENA_MAX_NUM_CHUNKS - 1 => r.ret = NULL
       /\ r.ret = NULL =>
            r.free_chunks = free_chunks /\ r.used_chunks = used_chunks

\* a malloc has just failed for want of a fitting entry while used has room
\* and two non-empty free entries together hold a size that neither has
C5_Witness ==
  /\ last.op = "malloc" /\ last.path = "nofit"
  /\ Len(used_chunks) < MICRO_ARENA_MAX_NUM_CHUNKS - 1
  /\ \E i, j \in 1..Len(free_chunks) :
       /\ i # j /\ free_chunks[i].size > 0 /\ free_chunks[j].size > 0
  /\ \E size \in Sizes :
       /\ SumSizes(free_chunks) >= size
       /\ \A i \in 1..Len(free_chunks) : free_chunks[i].size < size

\* ---- C6 ----
\* C6: every range handed out by malloc, calloc or realloc lies inside the
\* buffer: 0 <= start and start + size <= MICRO_ARENA_STACK_MEM_SIZE.
C6_Bounds ==
  /\ \A i \in 1..Len(used_chunks) :
       /\ used_chunks[i].start >= 0
       /\ used_chunks[i].start + used_chunks[i].size
            <= MICRO_ARENA_STACK_MEM_SIZE
  /\ (last.op \in AllocOps /\ last.ret # NULL) =>
       \E i \in 1..Len(used_chunks) : used_chunks[i].start = last.ret

\* an allocation has just been handed out that ends at the end of the buffer
C6_Witness ==
  /\ last.op \in AllocOps /\ last.ret # NULL
  /\ \E i \in 1..Len(used_chunks) :
       /\ used_chunks[i].start = last.ret
       /\ used_chunks[i].size > 0
       /\ used_chunks[i].start + used_chunks[i].size
            = MICRO_ARENA_STACK_MEM_SIZE

\* ---- C7 ----
\* C7: no two entries of the same directory have the same start.
C7_UniqueStarts ==
  UniqueStarts(free_chunks) /\ UniqueStarts(used_chunks)

\* ---- C8 ----
\* C8: free(ptr) with a ptr that is not the start of any used entry leaves
\* both directories exactly as they were.
C8_FreeUnknown ==
  \A ptr \in AnyPointer :
    (\A i \in 1..Len(used_chunks) : used_chunks[i].start # ptr) =>
      LET r == micro_arena_free(free_chunks, used_chunks, ptr)
      IN r.free_chunks = free_chunks /\ r.used_chunks = used_chunks

\* a free has just missed while an allocation with bytes in it is live
C8_Witness ==
  /\ last.op = "free" /\ last.path = "miss"
  /\ \E i \in 1..Len(used_chunks) : used_chunks[i].size > 0

\* ---- C9 ----
\* C9: free(ptr) called twice in a row: the second call changes nothing.
C9_DoubleFree ==
  \A ptr \in AnyPointer :
    LET r1 == micro_arena_free(free_chunks, used_chunks, ptr)
        r2 == micro_arena_free(r1.free_chunks, r1.used_chunks, ptr)
    IN r2.free_chunks = r1.free_chunks /\ r2.used_chunks = r1.used_chunks

\* ---- C10 ----
\* C10: a realloc that returns NULL leaves both directories as they were;
\* if ptr was in used, its entry is still there with its size and a free(ptr)
\* right after finds and removes an entry.
C10_ReallocFailure ==
  \A ptr \in AnyPointer : \A size \in Sizes :
    LET r == micro_arena_realloc(free_chunks, used_chunks, mem, ptr, size)
    IN r.ret = NULL =>
         /\ r.free_chunks = free_chunks
         /\ r.used_chunks = used_chunks
         /\ \A i \in 1..Len(used_chunks) :
              used_chunks[i].start = ptr =>
                /\ i <= Len(r.used_chunks)
                /\ r.used_chunks[i] = used_chunks[i]
                /\ LET f == micro_arena_free(r.free_chunks, r.used_chunks, ptr)
                   IN Len(f.used_chunks) = Len(used_chunks) - 1

\* a realloc of a live handle has just failed in its malloc step
C10_Witness ==
  /\ last.op = "realloc" /\ last.path = "nomem" /\ last.ret = NULL
  /\ used_chunks # << >>

\* ---- C11 ----
\* buffer contents the content claims range over
Contents == [Offsets -> {0, 1}]

Min(a, b) == IF a < b THEN a ELSE b

C12_Calloc ==
  \A m \in Contents : \A nmemb \in Factors : \A size \in Factors :
    LET r == micro_arena_calloc(free_chunks, used_chunks, m, nmemb, size)
        a == micro_arena_malloc(free_chunks, used_chunks, nmemb * size)
    IN r.ret # NULL =>
         /\ \E k \in 1..Len(r.used_chunks) :
              r.used_chunks[k] = [start |-> r.ret, size |-> nmemb * size]
         /\ \A i \in 0..(nmemb * size - 1) :
              r.ret + i \in Offsets /\ r.mem[r.ret + i] = 0
         /\ \A o \in Offsets :
              (o < r.ret \/ o >= r.ret + nmemb * size) => r.mem[o] = m[o]
         /\ r.free_chunks = a.free_chunks
         /\ r.used_chunks = a.used_chunks

\* the same statement for the products that fit in a size_t
C12_CallocNoWrap ==
  \A m \in Contents : \A nmemb \in Factors : \A size \in Factors :
    LET r == micro_arena_calloc(free_chunks, used_chunks, m, nmemb, size)
        a == micro_arena_malloc(free_chunks, used_chunks, nmemb * size)
    IN (r.ret # NULL /\ nmemb * size < SIZE_MOD) =>
         /\ \E k \in 1..Len(r.used_chunks) :
              r.used_chunks[k] = [start |-> r.ret, size |-> nmemb * size]
         /\ \A i \in 0..(nmemb * size - 1) :
              r.ret + i \in Offsets /\ r.mem[r.ret + i] = 0
         /\ \A o \in Offsets :
              (o < r.ret \/ o >= r.ret + nmemb * size) => r.mem[o] = m[o]
         /\ r.free_chunks = a.free_chunks
         /\ r.used_chunks = a.used_chunks

\* ---- C13 ----
\* C13: micro_arena_init, on a fresh arena or in any reachable state, leaves
\* used empty and free with the single entry (start of the buffer, full
\* size); a second micro_arena_init right after changes nothing.
C13_InitPost ==
  LET r == micro_arena_init(free_chunks, used_chunks)
      r2 == micro_arena_init(r.free_chunks, r.used_chunks)
  IN /\ r.used_chunks = << >>
     /\ r.free_chunks = << [start |-> 0, size |-> MICRO_ARENA_STACK_MEM_SIZE] >>
     /\ r2 = r
     /\ last.op = "init" =>
          /\ used_chunks = r.used_chunks
          /\ free_chunks = r.free_chunks

\* the arena has just been initialised again
C13_Witness ==
  /\ last.op = "init" /\ last.path = "again"
  /\ used_chunks = << >> /\ Len(free_chunks) = 1

\* ---- C14 ----
\* index of the used entry a release of ptr works on, 0 if there is none
FoundIdx(uc, ptr) ==
  CHOOSE k \in 0..Len(uc) :
    IF \E j \in 1..Len(uc) : uc[j].start = ptr
    THEN /\ k >= 1 /\ uc[k].start = ptr
         /\ \A j \in 1..(k-1) : uc[j].start # ptr
    ELSE k = 0

\* free entries that start where u ends / end where u starts
TouchAfter(fc, u) == {i \in 1..Len(fc) : fc[i].start = u.start + u.size}
TouchBefore(fc, u) == {i \in 1..Len(fc) : fc[i].start + fc[i].size = u.start}

\* C14: a free whose handle is found in used shortens used by one, and
\* changes the length of free by +1 when no free entry touches the released
\* range, by 0 when only a before or only an after neighbour is found, and
\* by -1 when both are found.
C14_FreeLengths ==
  \A ptr \in AnyPointer :
    LET k == FoundIdx(used_chunks, ptr)
        r == micro_arena_free(free_chunks, used_chunks, ptr)
    IN k # 0 =>
         LET A == TouchAfter(free_chunks, used_chunks[k])
             B == TouchBefore(free_chunks, used_chunks[k])
         IN /\ Len(r.used_chunks) = Len(used_chunks) - 1
            /\ Len(r.free_chunks) - Len(free_chunks) =
                 IF A = {} /\ B = {} THEN 1
                 ELSE IF A # {} /\ B # {} THEN 0 - 1
                 ELSE 0

\* the same statement, except that the free directory may be full
C14_FreeLengthsRoom ==
  \A ptr \in AnyPointer :
    LET k == FoundIdx(used_chunks, ptr)
        r == micro_arena_free(free_chunks, used_chunks, ptr)
    IN (k # 0 /\ Len(free_chunks) + 1 < MICRO_ARENA_MAX_NUM_CHUNKS) =>
         LET A == TouchAfter(free_chunks, used_chunks[k])
             B == TouchBefore(free_chunks, used_chunks[k])
         IN /\ Len(r.used_chunks) = Len(used_chunks) - 1
            /\ Len(r.free_chunks) - Len(free_chunks) =
                 IF A = {} /\ B = {} THEN 1
                 ELSE IF A # {} /\ B # {} THEN 0 - 1
                 ELSE 0

\* ---- C15 ----
\* C15: both directories always hold at most MICRO_ARENA_MAX_NUM_CHUNKS - 1
\* entries, and an add on a directory of that length returns NULL and leaves
\* the length and every entry as they were.
C15_Capacity ==
  /\ Len(free_chunks) <= MICRO_ARENA_MAX_NUM_CHUNKS - 1
  /\ Len(used_chunks) <= MICRO_ARENA_MAX_NUM_CHUNKS - 1
  /\ \A chunk_list \in {free_chunks, used_chunks} :
       Len(chunk_list) = MICRO_ARENA_MAX_NUM_CHUNKS - 1 =>
         \A start \in Pointers : \A size \in Sizes :
           LET a == micro_arena_chunk_list_add(chunk_list, start, size)
           IN ~a.ok /\ a.list = chunk_list

\* a malloc has just been refused by a used directory that is full
C15_Witness ==
  /\ last.op = "malloc" /\ last.path = "full"
  /\ Len(used_chunks) = MICRO_ARENA_MAX_NUM_CHUNKS - 1

\* ---- C16 ----
\* free holds the entry (lo, total) and no other free entry covers a byte of it
HoldsMerged(fc, lo, total) ==
  \E k \in 1..Len(fc) :
    /\ fc[k] = [start |-> lo, size |-> total]
    /\ \A j \in 1..Len(fc) : \A o \in Offsets :
         (j # k /\ lo <= o /\ o < lo + total) => ~InRange(fc[j], o)

\* the merged range of u with the neighbours b and a (0: no such neighbour)
MergedWith(fc, u, b, a, r) ==
  HoldsMerged(r.free_chunks,
              IF b = 0 THEN u.start ELSE fc[b].start,
              (IF b = 0 THEN 0 ELSE fc[b].size) + u.size +
              (IF a = 0 THEN 0 ELSE fc[a].size))

\* C16: when free(ptr) finds ptr in used and a free entry ends at the
\* released start and/or a free entry starts at the released end, free
\* afterwards holds one entry that is exactly before + released + after, and
\* no other free entry covers a byte of it.
C16_Coalesce ==
  \A ptr \in AnyPointer :
    LET k == FoundIdx(used_chunks, ptr)
        r == micro_arena_free(free_chunks, used_chunks, ptr)
    IN k # 0 =>
         LET u == used_chunks[k]
             A == TouchAfter(free_chunks, u)
             B == TouchBefore(free_chunks, u)
         IN (A # {} \/ B # {}) =>
              \E b \in (IF B = {} THEN {0} ELSE B) :
                \E a \in (IF A = {} THEN {0} ELSE A) :
                  MergedWith(free_chunks, u, b, a, r)

\* the same statement when only one side has a neighbour
C16_CoalesceOneSide ==
  \A ptr \in AnyPointer :
    LET k == FoundIdx(used_chunks, ptr)
        r == micro_arena_free(free_chunks, used_chunks, ptr)
    IN k # 0 =>
         LET u == used_chunks[k]
             A == TouchAfter(free_chunks, u)
             B == TouchBefore(free_chunks, u)
         IN ((A # {}) # (B # {})) =>
              \E b \in (IF B = {} THEN {0} ELSE B) :
                \E a \in (IF A = {} THEN {0} ELSE A) :
                  MergedWith(free_chunks, u, b, a, r)

\* ---- C17 ----
\* C17: when free(ptr) finds ptr in used and no free entry touches the
\* released range, free afterwards holds a new entry with the released start
\* and size and the used entry is gone, whether or not free was full.
C17_FreeNoNeighbour ==
  \A ptr \in AnyPointer :
    LET k == FoundIdx(used_chunks, ptr)
        r == micro_arena_free(free_chunks, used_chunks, ptr)
    IN k # 0 =>
         LET u == used_chunks[k]
         IN (TouchAfter(free_chunks, u) = {} /\ TouchBefore(free_chunks, u) = {})
              => /\ r.free_chunks = Append(free_chunks, u)
                 /\ Len(r.used_chunks) = Len(used_chunks) - 1

\* the same statement for a free directory that has room
C17_FreeNoNeighbourRoom ==
  \A ptr \in AnyPointer :
    LET k == FoundIdx(used_chunks, ptr)
        r == micro_arena_free(free_chunks, used_chunks, ptr)
    IN (k # 0 /\ Len(free_chunks) + 1 < MICRO_ARENA_MAX_NUM_CHUNKS) =>
         LET u == used_chunks[k]
         IN (TouchAfter(free_chunks, u) = {} /\ TouchBefore(free_chunks, u) = {})
              => /\ r.free_chunks = Append(free_chunks, u)
                 /\ Len(r.used_chunks) = Len(used_chunks) - 1

\* ---- C18 ----
\* C18: in every reachable state in which used is below its capacity,
\* malloc(0) succeeds: it returns a non-NULL handle and appends the used
\* entry (handle, 0).
C18_MallocZero ==
  Len(used_chunks) < MICRO_ARENA_MAX_NUM_CHUNKS - 1 =>
    LET r == micro_arena_malloc(free_chunks, used_chunks, 0)
    IN /\ r.ret # NULL
       /\ r.used_chunks = Append(used_chunks, [start |-> r.ret, size |-> 0])

\* the same statement for a free directory that is not empty
C18_MallocZeroSomeFree ==
  (Len(used_chunks) < MICRO_ARENA_MAX_NUM_CHUNKS - 1 /\ free_chunks # << >>) =>
    LET r == micro_arena_malloc(free_chunks, used_chunks, 0)
    IN /\ r.ret # NULL
       /\ r.used_chunks = Append(used_chunks, [start |-> r.ret, size |-> 0])

\* ---- C19 ----
FreeThenMalloc(fc, uc, ptr, size) ==
  LET f == micro_arena_free(fc, uc, ptr)
  IN micro_arena_malloc(f.free_chunks, f.used_chunks, size)

\* C19: for a handle present in used, realloc(ptr, size) returns non-NULL
\* exactly when malloc(size) would return non-NULL in the state before the
\* call (the old range is still registered while the new one is allocated).
C19_ReallocNeedsRoom ==
  \A ptr \in Pointers : \A size \in Sizes :
    FoundIdx(used_chunks, ptr) # 0 =>
      LET r == micro_arena_realloc(free_chunks, used_chunks, mem, ptr, size)
          a == micro_arena_malloc(free_chunks, used_chunks, size)
      IN (r.ret # NULL) <=> (a.ret # NULL)

\* a realloc of a live handle has just failed, and in the state it left
\* there is a handle and a positive size not above the old size for which
\* realloc fails while free followed by malloc succeeds
C19_Witness ==
  /\ last.op = "realloc" /\ last.path = "nomem"
  /\ \E ptr \in Pointers : \E size \in Sizes \ {0} :
       LET k == FoundIdx(used_chunks, ptr)
       IN /\ k # 0
          /\ size <= used_chunks[k].size
          /\ micro_arena_realloc(free_chunks, used_chunks, mem,
                                 ptr, size).ret = NULL
          /\ FreeThenMalloc(free_chunks, used_chunks, ptr, size).ret # NULL

\* ---- C20 ----
RemoveAt(s, i) ==
  [k \in 1..(Len(s) - 1) |-> IF k < i THEN s[k] ELSE s[k+1]]

\* uc2 is base, or base with one entry appended
KeepsOrAppends(base, uc2) ==
  /\ Len(uc2) \in {Len(base), Len(base) + 1}
  /\ SubSeq(uc2, 1, Len(base)) = base

\* uc2 is uc, possibly without one entry whose start is ptr, possibly with
\* one entry appended: every other entry is kept, in the same order
StableExcept(uc, uc2, ptr) ==
  \/ KeepsOrAppends(uc, uc2)
  \/ \E i \in 1..Len(uc) :
       uc[i].start = ptr /\ KeepsOrAppends(RemoveAt(uc, i), uc2)

====
